---- MODULE Spec2Model ----
(***************************************************************************)
(* askrepo: the content-ingestion pipeline (src/src/file_utils.rs) and the *)
(* response decoder and its producer task (src/src/google_api.rs).         *)
(*                                                                         *)
(* Text is a sequence of characters, each character a one-symbol string.   *)
(* Bytes outside ASCII are the symbols "xHH"; the characters they decode   *)
(* to are the symbols "U+HHHH".  Control characters without a TLA+ escape  *)
(* are written "U+0000", "U+0001", "U+0008", "U+001A".                     *)
(***************************************************************************)
EXTENDS Naturals, Integers, Sequences, FiniteSets, TLC

\* ------------------------------------------------------------------ bounds
\* Lines of one decoder input.
MaxLines == 3
\* Length of a file content string given to the escaping step.
MaxStrLen == 3
\* Files one traversal yields.
MaxFiles == 3
\* Fragments the transport cuts one response into.
MaxFrags == 2

\* ------------------------------------------------------- program constants
\* mpsc::channel(100), the streaming channel.
STREAM_CHANNEL_CAP == 100
\* mpsc::channel(1), the non-streaming channel.
SINGLE_CHANNEL_CAP == 1
MAX_SCAN_SIZE == 1024

\* --------------------------------------------------------------- sequences
RECURSIVE Flatten(_)
Flatten(ss) == IF ss = <<>> THEN <<>> ELSE Head(ss) \o Flatten(Tail(ss))

StartsWith(s, p) == Len(s) >= Len(p) /\ SubSeq(s, 1, Len(p)) = p

Drop(s, n) == SubSeq(s, n + 1, Len(s))

Contains(s, c) == \E i \in 1..Len(s) : s[i] = c

\* Vec<String>::join(sep).
RECURSIVE Join(_, _)
Join(ss, sep) ==
    IF ss = <<>> THEN <<>>
    ELSE IF Len(ss) = 1 THEN ss[1]
    ELSE ss[1] \o sep \o Join(Tail(ss), sep)

\* Sequences over S of length at most n.
SeqsUpTo(S, n) == UNION {[1..k -> S] : k \in 0..n}

\* -------------------------------------------------------------- characters
\* char::is_whitespace, restricted to the characters of the model.
IsWhitespace(c) == c \in {" ", "\t", "\n", "\r", "\f"}

\* The C0 control characters of the model and their code, as the two low hex
\* digits serde_json writes after "\u00".
ControlCode ==
    [c \in {"U+0000", "U+0001", "U+0008", "\t", "\n", "\f", "\r", "U+001A"} |->
        CASE c = "U+0000" -> <<"0", "0">>
          [] c = "U+0001" -> <<"0", "1">>
          [] c = "U+0008" -> <<"0", "8">>
          [] c = "\t"     -> <<"0", "9">>
          [] c = "\n"     -> <<"0", "a">>
          [] c = "\f"     -> <<"0", "c">>
          [] c = "\r"     -> <<"0", "d">>
          [] c = "U+001A" -> <<"1", "a">>]

IsControl(c) == c \in DOMAIN ControlCode

\* str::trim: from the first to the last character that is not whitespace.
Trim(s) ==
    IF \A i \in 1..Len(s) : IsWhitespace(s[i]) THEN <<>>
    ELSE SubSeq(s,
            CHOOSE i \in 1..Len(s) :
                ~IsWhitespace(s[i]) /\ \A j \in 1..(i - 1) : IsWhitespace(s[j]),
            CHOOSE i \in 1..Len(s) :
                ~IsWhitespace(s[i]) /\ \A j \in (i + 1)..Len(s) : IsWhitespace(s[j]))

\* str::lines: split at "\n", a line's own trailing "\r" removed, no empty
\* last line after a final "\n".
StripCr(l) ==
    IF l # <<>> /\ l[Len(l)] = "\r" THEN SubSeq(l, 1, Len(l) - 1) ELSE l

\* The positions of the line terminators, and of the end of an unterminated
\* last line.
LineEnds(s) ==
    {i \in 1..Len(s) : s[i] = "\n"}
    \cup (IF s # <<>> /\ s[Len(s)] # "\n" THEN {Len(s) + 1} ELSE {})

Lines(s) ==
    LET ends == LineEnds(s)
        EndOf(k) == CHOOSE e \in ends : Cardinality({x \in ends : x < e}) = k - 1
        StartOf(k) == IF k = 1 THEN 1 ELSE EndOf(k - 1) + 1
    IN  [k \in 1..Cardinality(ends) |->
            StripCr(SubSeq(s, StartOf(k), EndOf(k) - 1))]

\* ------------------------------------------------------- serde_json values
JNull == [t |-> "null"]
JBool(b) == [t |-> "bool", b |-> b]
JNum(n) == [t |-> "num", n |-> n]
JStr(s) == [t |-> "str", s |-> s]
JArr(a) == [t |-> "arr", a |-> a]
\* An object is its members in document order, <<key, value>> each.
JObj(o) == [t |-> "obj", o |-> o]

ParseFail == [ok |-> FALSE, v |-> JNull, i |-> 0]
ParseOk(v, i) == [ok |-> TRUE, v |-> v, i |-> i]

IsJsonWs(c) == c \in {" ", "\t", "\n", "\r"}

RECURSIVE SkipWs(_, _)
SkipWs(s, i) == IF i <= Len(s) /\ IsJsonWs(s[i]) THEN SkipWs(s, i + 1) ELSE i

Digits == {"0", "1", "2", "3", "4", "5", "6", "7", "8", "9"}
HexDigits == Digits \cup {"a", "b", "c", "d", "e", "f", "A", "B", "C", "D", "E", "F"}

LowerHex(h) ==
    CASE h = "A" -> "a" [] h = "B" -> "b" [] h = "C" -> "c"
      [] h = "D" -> "d" [] h = "E" -> "e" [] h = "F" -> "f"
      [] OTHER -> h

\* The character of a \uXXXX escape: a control character of the model, or
\* the symbol "U+XXXX".
UnicodeEscape(h) ==
    LET low == <<LowerHex(h[3]), LowerHex(h[4])>>
        hit == {c \in DOMAIN ControlCode : ControlCode[c] = low}
    IN  IF h[1] = "0" /\ h[2] = "0" /\ hit # {}
        THEN CHOOSE c \in hit : TRUE
        ELSE "U+" \o h[1] \o h[2] \o h[3] \o h[4]

\* A JSON string from the character after its opening quote.
RECURSIVE ParseString(_, _, _)
ParseString(s, i, acc) ==
    IF i > Len(s) THEN ParseFail
    ELSE IF s[i] = "\"" THEN ParseOk(acc, i + 1)
    ELSE IF IsControl(s[i]) THEN ParseFail
    ELSE IF s[i] # "\\" THEN ParseString(s, i + 1, Append(acc, s[i]))
    ELSE IF i + 1 > Len(s) THEN ParseFail
    ELSE LET e == s[i + 1] IN
         CASE e \in {"\"", "\\", "/"} -> ParseString(s, i + 2, Append(acc, e))
           [] e = "b" -> ParseString(s, i + 2, Append(acc, "U+0008"))
           [] e = "f" -> ParseString(s, i + 2, Append(acc, "\f"))
           [] e = "n" -> ParseString(s, i + 2, Append(acc, "\n"))
           [] e = "r" -> ParseString(s, i + 2, Append(acc, "\r"))
           [] e = "t" -> ParseString(s, i + 2, Append(acc, "\t"))
           [] e = "u" ->
                IF i + 5 <= Len(s) /\ \A k \in 2..5 : s[i + k] \in HexDigits
                THEN ParseString(s, i + 6,
                         Append(acc, UnicodeEscape(SubSeq(s, i + 2, i + 5))))
                ELSE ParseFail
           [] OTHER -> ParseFail

RECURSIVE DigitsEnd(_, _)
DigitsEnd(s, i) == IF i <= Len(s) /\ s[i] \in Digits THEN DigitsEnd(s, i + 1) ELSE i

\* A JSON number starting at i: -? int frac? exp?
ParseNumber(s, i) ==
    LET a  == IF s[i] = "-" THEN i + 1 ELSE i
        b  == DigitsEnd(s, a)
        okInt == b > a /\ (s[a] = "0" => b = a + 1)
        c  == IF b <= Len(s) /\ s[b] = "." THEN DigitsEnd(s, b + 1) ELSE b
        okFrac == c = b \/ c > b + 1
        hasExp == c <= Len(s) /\ s[c] \in {"e", "E"}
        d  == IF hasExp /\ c + 1 <= Len(s) /\ s[c + 1] \in {"+", "-"}
              THEN c + 2 ELSE c + 1
        e  == IF hasExp THEN DigitsEnd(s, d) ELSE c
        okExp == ~hasExp \/ e > d
    IN  IF okInt /\ okFrac /\ okExp
        THEN ParseOk(JNum(SubSeq(s, i, e - 1)), e) ELSE ParseFail

RECURSIVE ParseValue(_, _)
RECURSIVE ParseElements(_, _, _)
RECURSIVE ParseMembers(_, _, _)

\* The elements of an array from the first one, up to and with the "]".
ParseElements(s, i, acc) ==
    LET r == ParseValue(s, i) IN
    IF ~r.ok THEN ParseFail
    ELSE LET j == SkipWs(s, r.i) IN
         IF j > Len(s) THEN ParseFail
         ELSE IF s[j] = "]" THEN ParseOk(JArr(Append(acc, r.v)), j + 1)
         ELSE IF s[j] = "," THEN ParseElements(s, SkipWs(s, j + 1), Append(acc, r.v))
         ELSE ParseFail

\* The members of an object from the first key, up to and with the "}".
ParseMembers(s, i, acc) ==
    IF i > Len(s) \/ s[i] # "\"" THEN ParseFail
    ELSE LET k == ParseString(s, i + 1, <<>>) IN
         IF ~k.ok THEN ParseFail
         ELSE LET c == SkipWs(s, k.i) IN
              IF c > Len(s) \/ s[c] # ":" THEN ParseFail
              ELSE LET r == ParseValue(s, SkipWs(s, c + 1)) IN
                   IF ~r.ok THEN ParseFail
                   ELSE LET j == SkipWs(s, r.i)
                            more == Append(acc, <<k.v, r.v>>)
                        IN  IF j > Len(s) THEN ParseFail
                            ELSE IF s[j] = "}" THEN ParseOk(JObj(more), j + 1)
                            ELSE IF s[j] = ","
                                 THEN ParseMembers(s, SkipWs(s, j + 1), more)
                            ELSE ParseFail

ParseValue(s, i) ==
    IF i > Len(s) THEN ParseFail
    ELSE CASE s[i] = "\"" ->
                LET r == ParseString(s, i + 1, <<>>) IN
                IF r.ok THEN ParseOk(JStr(r.v), r.i) ELSE ParseFail
           [] s[i] = "[" ->
                LET j == SkipWs(s, i + 1) IN
                IF j <= Len(s) /\ s[j] = "]" THEN ParseOk(JArr(<<>>), j + 1)
                ELSE ParseElements(s, j, <<>>)
           [] s[i] = "{" ->
                LET j == SkipWs(s, i + 1) IN
                IF j <= Len(s) /\ s[j] = "}" THEN ParseOk(JObj(<<>>), j + 1)
                ELSE ParseMembers(s, j, <<>>)
           [] s[i] = "n" ->
                IF StartsWith(Drop(s, i - 1), <<"n", "u", "l", "l">>)
                THEN ParseOk(JNull, i + 4) ELSE ParseFail
           [] s[i] = "t" ->
                IF StartsWith(Drop(s, i - 1), <<"t", "r", "u", "e">>)
                THEN ParseOk(JBool(TRUE), i + 4) ELSE ParseFail
           [] s[i] = "f" ->
                IF StartsWith(Drop(s, i - 1), <<"f", "a", "l", "s", "e">>)
                THEN ParseOk(JBool(FALSE), i + 5) ELSE ParseFail
           [] s[i] \in Digits \cup {"-"} -> ParseNumber(s, i)
           [] OTHER -> ParseFail

\* serde_json::from_str::<Value>: one value, whitespace around it, nothing else.
FromStr(s) ==
    LET r == ParseValue(s, SkipWs(s, 1)) IN
    IF r.ok /\ SkipWs(s, r.i) = Len(s) + 1 THEN [ok |-> TRUE, v |-> r.v]
    ELSE [ok |-> FALSE, v |-> JNull]

\* Map::get: the last member of the key (a later insert replaces an earlier).
ObjHas(o, key) == \E i \in 1..Len(o) : o[i][1] = key
ObjGet(o, key) ==
    LET i == CHOOSE i \in 1..Len(o) :
                 o[i][1] = key /\ \A j \in (i + 1)..Len(o) : o[j][1] # key
    IN  o[i][2]

\* value[key]: Null unless an object with that key.
Index(v, key) ==
    IF v.t = "obj" /\ ObjHas(v.o, key) THEN ObjGet(v.o, key) ELSE JNull

\* value == "literal".
EqStr(v, lit) == v.t = "str" /\ v.s = lit

\* str's Debug: the text in quotes, quotes and backslashes and the usual
\* control characters escaped.
RECURSIVE StrDebugBody(_)
StrDebugBody(s) ==
    IF s = <<>> THEN <<>>
    ELSE LET c == Head(s)
             e == CASE c = "\"" -> <<"\\", "\"">>
                    [] c = "\\" -> <<"\\", "\\">>
                    [] c = "\n" -> <<"\\", "n">>
                    [] c = "\r" -> <<"\\", "r">>
                    [] c = "\t" -> <<"\\", "t">>
                    [] OTHER -> <<c>>
         IN  e \o StrDebugBody(Tail(s))

StrDebug(s) == <<"\"">> \o StrDebugBody(s) \o <<"\"">>

\* Value's Debug.
RECURSIVE ValueDebug(_)
RECURSIVE ValueDebugList(_)
RECURSIVE ValueDebugMembers(_)
ValueDebugList(a) ==
    IF a = <<>> THEN <<>>
    ELSE ValueDebug(a[1])
         \o (IF Len(a) > 1 THEN <<",", " ">> ELSE <<>>)
         \o ValueDebugList(Tail(a))
ValueDebugMembers(o) ==
    IF o = <<>> THEN <<>>
    ELSE StrDebug(o[1][1]) \o <<":", " ">> \o ValueDebug(o[1][2])
         \o (IF Len(o) > 1 THEN <<",", " ">> ELSE <<>>)
         \o ValueDebugMembers(Tail(o))
ValueDebug(v) ==
    CASE v.t = "null" -> <<"N", "u", "l", "l">>
      [] v.t = "bool" ->
            <<"B", "o", "o", "l", "(">>
            \o (IF v.b THEN <<"t", "r", "u", "e">> ELSE <<"f", "a", "l", "s", "e">>)
            \o <<")">>
      [] v.t = "num" -> <<"N", "u", "m", "b", "e", "r", "(">> \o v.n \o <<")">>
      [] v.t = "str" -> <<"S", "t", "r", "i", "n", "g", "(">> \o StrDebug(v.s) \o <<")">>
      [] v.t = "arr" ->
            <<"A", "r", "r", "a", "y", " ", "[">> \o ValueDebugList(v.a) \o <<"]">>
      [] v.t = "obj" ->
            <<"O", "b", "j", "e", "c", "t", " ", "{">>
            \o ValueDebugMembers(v.o) \o <<"}">>

\* ----------------------------------------------- parse_google_api_response
DataPrefix == <<"d", "a", "t", "a", ":", " ">>
DoneLine == <<"d", "a", "t", "a", ":", " ", "[", "D", "O", "N", "E", "]">>
KeyChoices == <<"c", "h", "o", "i", "c", "e", "s">>
KeyDelta == <<"d", "e", "l", "t", "a">>
KeyContent == <<"c", "o", "n", "t", "e", "n", "t">>
KeyFinishReason == <<"f", "i", "n", "i", "s", "h", "_", "r", "e", "a", "s", "o", "n">>
KeyRefusal == <<"r", "e", "f", "u", "s", "a", "l">>
KeyRole == <<"r", "o", "l", "e">>
StopWord == <<"s", "t", "o", "p">>

RefusalMarker(v) ==
    <<"[", "r", "e", "f", "u", "s", "a", "l", ":", " ">> \o ValueDebug(v) \o <<"]">>
RoleMarker(r) == <<"[", "r", "o", "l", "e", ":", " ">> \o r \o <<"]">>

\* What the delta of a choice appends: content, then refusal, then role.
DeltaText(delta) ==
    IF delta.t # "obj" THEN <<>>
    ELSE LET content == Index(delta, KeyContent)
             refusal == Index(delta, KeyRefusal)
             role    == Index(delta, KeyRole)
         IN  (IF content.t = "str" THEN content.s ELSE <<>>)
             \o (IF ObjHas(delta.o, KeyRefusal) /\ refusal.t # "null"
                 THEN RefusalMarker(refusal) ELSE <<>>)
             \o (IF role.t = "str" THEN RoleMarker(role.s) ELSE <<>>)

\* ProcessLine without its finish_reason test.
ProcessLineNoStopTest(rawLine) ==
    LET line == Trim(rawLine) IN
    IF line = <<>> \/ line = DoneLine \/ ~StartsWith(line, DataPrefix) THEN <<>>
    ELSE LET parsed == FromStr(Trim(Drop(line, Len(DataPrefix)))) IN
         IF ~parsed.ok THEN <<>>
         ELSE LET choices == Index(parsed.v, KeyChoices) IN
              IF ~(choices.t = "arr" /\ Len(choices.a) >= 1) THEN <<>>
              ELSE DeltaText(Index(choices.a[1], KeyDelta))

\* The body of the loop over the lines: what one line appends to result.
ProcessLine(rawLine) ==
    LET line == Trim(rawLine) IN
    IF line = <<>> THEN <<>>
    ELSE IF line = DoneLine THEN <<>>
    ELSE IF ~StartsWith(line, DataPrefix) THEN <<>>
    ELSE LET json_str == Trim(Drop(line, Len(DataPrefix)))
             parsed   == FromStr(json_str)
         IN  IF ~parsed.ok THEN <<>>
             ELSE LET choices == Index(parsed.v, KeyChoices) IN
                  IF ~(choices.t = "arr" /\ Len(choices.a) >= 1) THEN <<>>
                  ELSE LET choice == choices.a[1] IN
                       IF EqStr(Index(choice, KeyFinishReason), StopWord) THEN <<>>
                       ELSE DeltaText(Index(choice, KeyDelta))

RECURSIVE ParseLines(_, _)
ParseLines(lines, result) ==
    IF lines = <<>> THEN result
    ELSE ParseLines(Tail(lines), result \o ProcessLine(Head(lines)))

parse_google_api_response(data) == ParseLines(Lines(data), <<>>)

\* ------------------------------------------------------------------- bytes
\* The bytes of the model that are not ASCII: two lead bytes of a two-byte
\* UTF-8 sequence, two continuation bytes, and 0xFF, which no UTF-8 text holds.
LeadBytes == {"xC3", "xD8"}
ContinuationBytes == {"x89", "xA9"}
InvalidBytes == {"xFF"}
IsAsciiByte(b) == b \notin LeadBytes \cup ContinuationBytes \cup InvalidBytes

\* The character of a two-byte sequence.
TwoByteChar(lead, cont) ==
    CASE lead = "xC3" /\ cont = "x89" -> "U+00C9"
      [] lead = "xC3" /\ cont = "xA9" -> "U+00E9"
      [] lead = "xD8" /\ cont = "x89" -> "U+0609"
      [] lead = "xD8" /\ cont = "xA9" -> "U+0629"

\* Whether the bytes are UTF-8: every lead byte is followed by a continuation
\* byte, every continuation byte follows a lead byte.
IsUtf8(bytes) ==
    \A i \in 1..Len(bytes) :
        \/ IsAsciiByte(bytes[i])
        \/ /\ bytes[i] \in LeadBytes
           /\ i < Len(bytes)
           /\ bytes[i + 1] \in ContinuationBytes
        \/ /\ bytes[i] \in ContinuationBytes
           /\ i > 1
           /\ bytes[i - 1] \in LeadBytes

\* The text of UTF-8 bytes: one character per byte that starts one.
StartsCharacter(c) == c # "continuation"
Utf8Text(bytes) ==
    SelectSeq([i \in 1..Len(bytes) |->
                  IF IsAsciiByte(bytes[i]) THEN bytes[i]
                  ELSE IF bytes[i] \in LeadBytes
                       THEN TwoByteChar(bytes[i], bytes[i + 1])
                       ELSE "continuation"],
              StartsCharacter)

\* String::from_utf8.
from_utf8(bytes) ==
    IF IsUtf8(bytes) THEN [ok |-> TRUE, s |-> Utf8Text(bytes)]
    ELSE [ok |-> FALSE, s |-> <<>>]

\* ------------------------------------------------- serde_json's to_string
\* What the writer puts for one character of a string.
EscapeCharTabVerbatim(c) ==
    CASE c = "\"" -> <<"\\", "\"">>
      [] c = "\\" -> <<"\\", "\\">>
      [] c = "\n" -> <<"\\", "n">>
      [] OTHER -> <<c>>

EscapeChar(c) ==
    CASE c = "\"" -> <<"\\", "\"">>
      [] c = "\\" -> <<"\\", "\\">>
      [] c = "U+0008" -> <<"\\", "b">>
      [] c = "\t" -> <<"\\", "t">>
      [] c = "\n" -> <<"\\", "n">>
      [] c = "\f" -> <<"\\", "f">>
      [] c = "\r" -> <<"\\", "r">>
      [] OTHER -> IF IsControl(c) THEN <<"\\", "u", "0", "0">> \o ControlCode[c]
                  ELSE <<c>>

\* json!(s).to_string(): the string in quotes, its characters escaped.
JsonToString(s) ==
    <<"\"">> \o Flatten([k \in 1..Len(s) |-> EscapeChar(s[k])]) \o <<"\"">>

\* ---------------------------------------------------------------- file_utils
BinaryExtensions ==
    { <<"j", "p", "g">>, <<"j", "p", "e", "g">>, <<"p", "n", "g">>,
      <<"g", "i", "f">>, <<"b", "m", "p">>, <<"e", "x", "e">>, <<"d", "l", "l">> }

MagicNumbers ==
    { <<"xFF", "xD8", "xFF">>,
      <<"x89", "P", "N", "G", "\r", "\n", "U+001A", "\n">>,
      <<"G", "I", "F", "8", "7", "a">>,
      <<"G", "I", "F", "8", "9", "a">> }

UpperLetters ==
    <<"A", "B", "C", "D", "E", "F", "G", "H", "I", "J", "K", "L", "M",
      "N", "O", "P", "Q", "R", "S", "T", "U", "V", "W", "X", "Y", "Z">>
LowerLetters ==
    <<"a", "b", "c", "d", "e", "f", "g", "h", "i", "j", "k", "l", "m",
      "n", "o", "p", "q", "r", "s", "t", "u", "v", "w", "x", "y", "z">>

\* str::to_lowercase.
LowerChar(c) ==
    IF \E k \in 1..Len(UpperLetters) : UpperLetters[k] = c
    THEN LowerLetters[CHOOSE k \in 1..Len(UpperLetters) : UpperLetters[k] = c]
    ELSE c
ToLowercase(s) == [k \in 1..Len(s) |-> LowerChar(s[k])]

\* file.split('.').last(): the text after the last '.', the whole text when
\* it holds none.
SplitLast(s, sep) ==
    LET at == {i \in 1..Len(s) : s[i] = sep} IN
    IF at = {} THEN s
    ELSE Drop(s, CHOOSE i \in at : \A j \in at : j <= i)

is_binary_file_by_extension(file) ==
    ToLowercase(SplitLast(file, ".")) \in BinaryExtensions

Min(a, b) == IF a <= b THEN a ELSE b

\* A file of the tree: its path, whether fs::read can read it, its bytes.
is_binary_file_by_content(f) ==
    IF ~f.readable THEN FALSE
    ELSE LET scan_size == Min(Len(f.bytes), MAX_SCAN_SIZE)
             has_zero_bytes == \E i \in 1..scan_size : f.bytes[i] = "U+0000"
         IN  has_zero_bytes \/ \E magic \in MagicNumbers : StartsWith(f.bytes, magic)

is_binary_file_extension_only(f) == is_binary_file_by_extension(f.path)

is_binary_file(f) ==
    is_binary_file_by_extension(f.path) \/ is_binary_file_by_content(f)

\* fs::read_to_string.
read_to_string(f) ==
    IF f.readable THEN from_utf8(f.bytes) ELSE [ok |-> FALSE, s |-> <<>>]

\* The escaped content of a record: the JSON text of the JSON text of the
\* content, without its first and last character.
EscapedContent(content) ==
    LET escaped_content == JsonToString(content)
        double_escaped_content == JsonToString(escaped_content)
    IN  SubSeq(double_escaped_content, 2, Len(double_escaped_content) - 1)

FileRecordEscapedOnce(path, content) ==
    path \o <<"\t">> \o SubSeq(JsonToString(content), 2, Len(JsonToString(content)) - 1)

\* format!("{}\t{}", file, trimmed_content).
FileRecord(path, content) == path \o <<"\t">> \o EscapedContent(content)

\* --------------------------------------------------- inputs of the decoder
\* JSON text, written out the way the server writes it.
Quoted(s) == <<"\"">> \o s \o <<"\"">>
Member(k, v) == Quoted(k) \o <<":">> \o v
Object(ms) == <<"{">> \o Join(ms, <<",">>) \o <<"}">>
Array(es) == <<"[">> \o Join(es, <<",">>) \o <<"]">>
NullWord == <<"n", "u", "l", "l">>

\* One event line: data: {"choices":[{"delta":{...}, ...}]}
Chunk(deltaMembers, choiceMembers) ==
    DataPrefix
    \o Object(<<Member(KeyChoices,
           Array(<<Object(<<Member(KeyDelta, Object(deltaMembers))>>
                          \o choiceMembers)>>))>>)

\* The lines a decoder input is made of.  kind, content and markers say what
\* the line is and what its delta carries: the line's kind, the delta's
\* content string, and the bracketed refusal and role markers.
LineCatalog ==
    << [text |-> <<>>, kind |-> "blank", content |-> <<>>, markers |-> <<>>],
       [text |-> <<" ", "\t">>, kind |-> "blank",
        content |-> <<>>, markers |-> <<>>],
       [text |-> DoneLine, kind |-> "done", content |-> <<>>, markers |-> <<>>],
       [text |-> SubSeq(Chunk(<<Member(KeyContent, Quoted(<<"X">>))>>, <<>>), 1, 35),
        kind |-> "malformed", content |-> <<>>, markers |-> <<>>],
       [text |-> Chunk(<<Member(KeyContent, Quoted(<<"X">>)),
                         Member(KeyRole, Quoted(<<"a", "i">>))>>,
                       <<Member(KeyFinishReason, Quoted(StopWord))>>),
        kind |-> "stop", content |-> <<"X">>,
        markers |-> <<"[", "r", "o", "l", "e", ":", " ", "a", "i", "]">>],
       [text |-> Chunk(<<Member(KeyContent, Quoted(<<"H", "e">>))>>,
                       <<Member(KeyFinishReason, NullWord)>>),
        kind |-> "valid", content |-> <<"H", "e">>, markers |-> <<>>],
       [text |-> <<" ", " ">>
                 \o Chunk(<<Member(KeyContent, Quoted(<<"l", "l", "o">>))>>, <<>>)
                 \o <<"\r">>,
        kind |-> "valid", content |-> <<"l", "l", "o">>, markers |-> <<>>],
       [text |-> Chunk(<<Member(KeyRole, Quoted(<<"a", "i">>)),
                         Member(KeyContent, Quoted(<<"H", "i">>))>>, <<>>),
        kind |-> "valid", content |-> <<"H", "i">>,
        markers |-> <<"[", "r", "o", "l", "e", ":", " ", "a", "i", "]">>],
       [text |-> Chunk(<<Member(KeyRefusal, Quoted(<<"n", "o">>)),
                         Member(KeyContent, Quoted(<<>>))>>, <<>>),
        kind |-> "valid", content |-> <<>>,
        markers |-> <<"[", "r", "e", "f", "u", "s", "a", "l", ":", " ", "S", "t",
                      "r", "i", "n", "g", "(", "\"", "n", "o", "\"", ")", "]">>],
       [text |-> Chunk(<<Member(KeyContent, Quoted(<<"Z">>))>>,
                       <<Member(KeyFinishReason, Quoted(<<"l", "e", "n">>))>>),
        kind |-> "valid", content |-> <<"Z">>, markers |-> <<>>],
       [text |-> DataPrefix \o Object(<<Member(KeyChoices, Array(<<>>))>>),
        kind |-> "valid", content |-> <<>>, markers |-> <<>>],
       [text |-> Chunk(<<Member(KeyContent, NullWord),
                         Member(KeyRefusal, NullWord),
                         Member(KeyRole, Quoted(<<"a", "i">>))>>, <<>>),
        kind |-> "valid", content |-> <<>>,
        markers |-> <<"[", "r", "o", "l", "e", ":", " ", "a", "i", "]">>],
       [text |-> <<"r", "a", "w", " ", "t", "e", "x", "t">>,
        kind |-> "other", content |-> <<>>, markers |-> <<>>] >>

LineIds == 1..Len(LineCatalog)

\* The input made of the catalogue's lines ids, newline-separated, with or
\* without a final newline.
TextOf(ids, finalNewline) ==
    Join([k \in 1..Len(ids) |-> LineCatalog[ids[k]].text], <<"\n">>)
    \o (IF finalNewline /\ ids # <<>> THEN <<"\n">> ELSE <<>>)

\* ------------------------------------------------ inputs of the ingestion
\* The files a traversal may yield.  survives and escaped say what the file
\* is: whether it is a readable text file that is not binary, and the
\* escaped form of its text.
FileCatalog ==
    << [path |-> <<"d", "/", "a", ".", "t", "x", "t">>, readable |-> TRUE,
        bytes |-> <<"h", "i", "\n">>,
        survives |-> TRUE,
        escaped |-> <<"\\", "\"", "h", "i", "\\", "\\", "n", "\\", "\"">>],
       [path |-> <<"d", "/", "b", ".", "P", "N", "G">>, readable |-> TRUE,
        bytes |-> <<"h", "i">>,
        survives |-> FALSE, escaped |-> <<>>],
       [path |-> <<"d", "/", "c">>, readable |-> TRUE,
        bytes |-> <<"a", "U+0000", "b">>,
        survives |-> FALSE, escaped |-> <<>>],
       [path |-> <<"d", "/", "e", ".", "m", "d">>, readable |-> TRUE,
        bytes |-> <<"a", "xFF">>,
        survives |-> FALSE, escaped |-> <<>>],
       [path |-> <<"d", "/", "f", ".", "r", "s">>, readable |-> FALSE,
        bytes |-> <<>>,
        survives |-> FALSE, escaped |-> <<>>],
       [path |-> <<"d", "/", "g">>, readable |-> TRUE,
        bytes |-> <<"G", "I", "F", "8", "9", "a", "x">>,
        survives |-> FALSE, escaped |-> <<>>],
       [path |-> <<"d", "/", ".", "h">>, readable |-> TRUE,
        bytes |-> <<"\t", "\"", "xC3", "xA9">>,
        survives |-> TRUE,
        escaped |-> <<"\\", "\"", "\\", "\\", "t", "\\", "\\", "\\", "\"",
                      "U+00E9", "\\", "\"">>],
       [path |-> <<"d", "/", "i", ".", "r", "s">>, readable |-> TRUE,
        bytes |-> <<>>,
        survives |-> TRUE, escaped |-> <<"\\", "\"", "\\", "\"">>] >>

FileIds == 1..Len(FileCatalog)

\* The characters of a file content given to the escaping step.
ContentAlphabet ==
    {"a", "\"", "\\", "\t", "\n", "\r", "U+0001", "U+0008", "U+00E9"}

\* The paths given to the extension signal: a directory, a stem, an extension.
PathDirs ==
    { <<>>, <<"d", "/">>, <<".", "/">>, <<"a", ".", "b", "/">>,
      <<"x", ".", "p", "n", "g", "/">> }
PathStems == { <<>>, <<"f">>, <<"p", "n", "g">>, <<"e", "x", "e">>, <<"a", ".", "b">> }
PathExtensions ==
    BinaryExtensions
    \cup { <<>>, <<"P", "N", "G">>, <<"J", "p", "g">>, <<"t", "x", "t">>,
           <<"p", "n", "g", "x">>, <<"r", "s">> }
PathCatalog ==
    { d \o st : d \in PathDirs, st \in PathStems \ {<<>>} }
    \cup { d \o st \o <<".">> \o e : d \in PathDirs, st \in PathStems, e \in PathExtensions }

\* ------------------------------------------------ inputs of the transport
\* The event streams the server sends.
StreamCatalog ==
    << TextOf(<<6, 7, 3>>, TRUE),
       Chunk(<<Member(KeyContent, Quoted(<<"xC3", "xA9">>))>>, <<>>) \o <<"\n">> >>

\* The non-streaming bodies: what the document holds at
\* candidates[0].content.parts[0].text, and its text.
KeyCandidates == <<"c", "a", "n", "d", "i", "d", "a", "t", "e", "s">>
KeyParts == <<"p", "a", "r", "t", "s">>
KeyText == <<"t", "e", "x", "t">>
CandidatesDoc(parts) ==
    Object(<<Member(KeyCandidates,
        Array(<<Object(<<Member(KeyContent,
            Object(<<Member(KeyParts, Array(parts))>>))>>)>>))>>)
BodyCatalog ==
    { [present |-> TRUE, text |-> t,
       body |-> CandidatesDoc(<<Object(<<Member(KeyText, Quoted(t))>>)>>)] :
         t \in SeqsUpTo({"H", "i"}, 2) }
    \cup { [present |-> FALSE, text |-> <<>>,
            body |-> Object(<<Member(KeyCandidates, Array(<<>>))>>)],
           [present |-> FALSE, text |-> <<>>, body |-> CandidatesDoc(<<>>)] }

\* What byte_stream yields: a chunk of bytes or an error.
OkChunk(bytes) == [ok |-> TRUE, bytes |-> bytes]
ErrChunk == [ok |-> FALSE, bytes |-> <<>>]

\* The ways of cutting bytes into at most n fragments, none empty.
RECURSIVE Cuts(_, _)
Cuts(bytes, n) ==
    IF bytes = <<>> THEN {<<>>}
    ELSE IF n <= 1 THEN {<<bytes>>}
    ELSE {<<bytes>>}
         \cup UNION { { <<SubSeq(bytes, 1, k)>> \o rest :
                          rest \in Cuts(Drop(bytes, k), n - 1) } :
                      k \in 1..(Len(bytes) - 1) }

\* What the transport delivers of the fragments: all of them and a close,
\* or the first k and then an error.
Wires(frags) ==
    {[i \in 1..Len(frags) |-> OkChunk(frags[i])]}
    \cup { [i \in 1..(k + 1) |-> IF i <= k THEN OkChunk(frags[i]) ELSE ErrChunk] :
             k \in 0..Len(frags) }

\* ------------------------------------------------------------------- state
VARIABLES
    data,       \* parse_google_api_response: its argument
    lineIds,    \* the catalogue lines data was made of
    result,     \* parse_google_api_response: its return value
    parsePc,    \* "idle", "call" (before the call) or "ret" (after it)
    content,    \* get_files_content: the content read from one file
    escaped,    \* get_files_content: trimmed_content
    escPc,      \* "idle", "call" or "ret"
    file,       \* is_binary_file_by_extension: its argument
    extSignal,  \* is_binary_file_by_extension: its return value
    extPc,      \* "idle", "call" or "ret"
    files,      \* get_files_content: the files get_tracked_files returned
    fileIdx,    \* get_files_content: the file the loop is at
    records,    \* get_files_content: result, the records pushed so far
    filesPc,    \* "idle", "loop" or "done"
    filesRet,   \* get_files_content: what it returned
    streamMode, \* get_google_api_data: stream
    wire,       \* everything the transport delivers for the response
    transport,  \* what byte_stream has yet to yield
    prodPc,     \* "idle", "start", "next" (at stream.next()), "send", "done"
    pending,    \* the content the task is sending
    chan,       \* the channel between the task and the caller
    rxOpen,     \* the caller still holds the returned stream
    received,   \* the items the caller got from the stream, in order
    callerSaw,  \* "pending", or "end" once the stream yielded None
    bodyDoc     \* non-streaming: the catalogue entry of the body

parseVars == <<data, lineIds, result, parsePc>>
escVars == <<content, escaped, escPc>>
extVars == <<file, extSignal, extPc>>
filesVars == <<files, fileIdx, records, filesPc, filesRet>>
apiVars ==
    <<streamMode, wire, transport, prodPc, pending, chan, rxOpen, received,
      callerSaw, bodyDoc>>

vars == <<parseVars, escVars, extVars, filesVars, apiVars>>

NoReturn == [ok |-> FALSE, err |-> "", payload |-> <<>>]

ParseIdle ==
    /\ data = <<>>
    /\ lineIds = <<>>
    /\ result = <<>>
    /\ parsePc = "idle"

EscIdle ==
    /\ content = <<>>
    /\ escaped = <<>>
    /\ escPc = "idle"

ExtIdle ==
    /\ file = <<>>
    /\ extSignal = FALSE
    /\ extPc = "idle"

FilesIdle ==
    /\ files = <<>>
    /\ fileIdx = 1
    /\ records = <<>>
    /\ filesPc = "idle"
    /\ filesRet = NoReturn

ApiIdle ==
    /\ streamMode = FALSE
    /\ wire = <<>>
    /\ transport = <<>>
    /\ prodPc = "idle"
    /\ pending = <<>>
    /\ chan = <<>>
    /\ rxOpen = FALSE
    /\ received = <<>>
    /\ callerSaw = "pending"
    /\ bodyDoc = [present |-> FALSE, text |-> <<>>, body |-> <<>>]

\* ------------------------------------------ the decoder as a pure function
ParseInit ==
    /\ lineIds \in SeqsUpTo(LineIds, MaxLines)
    /\ \E nl \in BOOLEAN : data = TextOf(lineIds, nl)
    /\ result = <<>>
    /\ parsePc = "call"

ParseCall ==
    /\ parsePc = "call"
    /\ result' = parse_google_api_response(data)
    /\ parsePc' = "ret"
    /\ UNCHANGED <<data, lineIds, escVars, extVars, filesVars, apiVars>>

SpecParseInit == ParseInit /\ EscIdle /\ ExtIdle /\ FilesIdle /\ ApiIdle
SpecParseNext == ParseCall
SpecParse == SpecParseInit /\ [][SpecParseNext]_vars

\* ------------------------------------------------------- the escaping step
EscInit ==
    /\ content \in SeqsUpTo(ContentAlphabet, MaxStrLen)
    /\ escaped = <<>>
    /\ escPc = "call"

EscapeCall ==
    /\ escPc = "call"
    /\ escaped' = EscapedContent(content)
    /\ escPc' = "ret"
    /\ UNCHANGED <<content, parseVars, extVars, filesVars, apiVars>>

SpecEscapeInit == EscInit /\ ParseIdle /\ ExtIdle /\ FilesIdle /\ ApiIdle
SpecEscapeNext == EscapeCall
SpecEscape == SpecEscapeInit /\ [][SpecEscapeNext]_vars

\* ---------------------------------------------------- the extension signal
ExtInit ==
    /\ file \in PathCatalog
    /\ extSignal = FALSE
    /\ extPc = "call"

ExtensionCall ==
    /\ extPc = "call"
    /\ extSignal' = is_binary_file_by_extension(file)
    /\ extPc' = "ret"
    /\ UNCHANGED <<file, parseVars, escVars, filesVars, apiVars>>

SpecExtInit == ExtInit /\ ParseIdle /\ EscIdle /\ FilesIdle /\ ApiIdle
SpecExtNext == ExtensionCall
SpecExt == SpecExtInit /\ [][SpecExtNext]_vars

\* -------------------------------------------------------- get_files_content
\* The traversal yields every path once.
FilesInit ==
    /\ \E ids \in SeqsUpTo(FileIds, MaxFiles) :
          /\ \A i, j \in 1..Len(ids) : i # j => ids[i] # ids[j]
          /\ files = [k \in 1..Len(ids) |-> FileCatalog[ids[k]]]
    /\ fileIdx = 1
    /\ records = <<>>
    /\ filesPc = "loop"
    /\ filesRet = NoReturn

\* One turn of the loop over the files.
FilesStep ==
    /\ filesPc = "loop"
    /\ fileIdx <= Len(files)
    /\ LET f == files[fileIdx]
           read == read_to_string(f)
       IN  records' = IF is_binary_file(f) THEN records
                      ELSE IF read.ok THEN Append(records, FileRecord(f.path, read.s))
                      ELSE records
    /\ fileIdx' = fileIdx + 1
    /\ UNCHANGED <<files, filesPc, filesRet, parseVars, escVars, extVars, apiVars>>

\* After the loop: the error, or the records joined.
FilesReturn ==
    /\ filesPc = "loop"
    /\ fileIdx > Len(files)
    /\ filesRet' =
          IF records = <<>>
          THEN [ok |-> FALSE, err |-> "No readable files found", payload |-> <<>>]
          ELSE [ok |-> TRUE, err |-> "", payload |-> Join(records, <<"\n">>)]
    /\ filesPc' = "done"
    /\ UNCHANGED <<files, fileIdx, records, parseVars, escVars, extVars, apiVars>>

SpecFilesInit == FilesInit /\ ParseIdle /\ EscIdle /\ ExtIdle /\ ApiIdle
SpecFilesNext == FilesStep \/ FilesReturn
SpecFiles == SpecFilesInit /\ [][SpecFilesNext]_vars

\* ------------------------------------------------------ get_google_api_data
ApiInit ==
    /\ streamMode \in BOOLEAN
    /\ IF streamMode
       THEN /\ \E d \in 1..Len(StreamCatalog) :
                 \E frags \in Cuts(StreamCatalog[d], MaxFrags) :
                     wire \in Wires(frags)
            /\ bodyDoc = [present |-> FALSE, text |-> <<>>, body |-> <<>>]
       ELSE /\ bodyDoc \in BodyCatalog
            /\ wire = <<OkChunk(bodyDoc.body)>>
    /\ transport = wire
    /\ prodPc = "start"
    /\ pending = <<>>
    /\ chan = <<>>
    /\ rxOpen = TRUE
    /\ received = <<>>
    /\ callerSaw = "pending"

\* stream: the task is spawned and the receiving stream returned.
CallStreaming ==
    /\ prodPc = "start"
    /\ streamMode
    /\ prodPc' = "next"
    /\ UNCHANGED <<streamMode, wire, transport, pending, chan, rxOpen, received,
                   callerSaw, bodyDoc, parseVars, escVars, extVars, filesVars>>

\* not stream: the body's text is sent on a channel of one slot, whose
\* sender is dropped on return.
CallNonStreaming ==
    /\ prodPc = "start"
    /\ ~streamMode
    /\ LET text == Utf8Text(transport[1].bytes) IN
       chan' = IF Len(chan) < SINGLE_CHANNEL_CAP THEN Append(chan, text) ELSE chan
    /\ transport' = <<>>
    /\ prodPc' = "done"
    /\ UNCHANGED <<streamMode, wire, pending, rxOpen, received, callerSaw, bodyDoc,
                   parseVars, escVars, extVars, filesVars>>

\* The task at stream.next(): a chunk, an error, or the end of the stream.
ProducerNext ==
    /\ prodPc = "next"
    /\ IF transport = <<>>
       THEN /\ prodPc' = "done"
            /\ UNCHANGED <<transport, pending>>
       ELSE LET chunk == Head(transport) IN
            /\ transport' = Tail(transport)
            /\ IF ~chunk.ok
               THEN /\ prodPc' = "done"
                    /\ UNCHANGED pending
               ELSE LET s == from_utf8(chunk.bytes)
                        parsed == IF s.ok THEN parse_google_api_response(s.s)
                                  ELSE <<>>
                    IN  IF s.ok /\ parsed # <<>>
                        THEN /\ pending' = parsed
                             /\ prodPc' = "send"
                        ELSE /\ prodPc' = "next"
                             /\ UNCHANGED pending
    /\ UNCHANGED <<streamMode, wire, chan, rxOpen, received, callerSaw, bodyDoc,
                   parseVars, escVars, extVars, filesVars>>

\* The task at tx.send(content).await: the content is queued when the caller
\* still holds the stream and a slot is free; with the stream dropped the
\* send fails, and its result is ignored.
ProducerSend ==
    /\ prodPc = "send"
    /\ rxOpen => Len(chan) < STREAM_CHANNEL_CAP
    /\ chan' = IF rxOpen THEN Append(chan, pending) ELSE chan
    /\ pending' = <<>>
    /\ prodPc' = "next"
    /\ UNCHANGED <<streamMode, wire, transport, rxOpen, received, callerSaw, bodyDoc,
                   parseVars, escVars, extVars, filesVars>>

\* The caller takes the next item of the stream.
CallerRecv ==
    /\ prodPc # "start"
    /\ rxOpen
    /\ chan # <<>>
    /\ received' = Append(received, Head(chan))
    /\ chan' = Tail(chan)
    /\ UNCHANGED <<streamMode, wire, transport, prodPc, pending, rxOpen, callerSaw,
                   bodyDoc, parseVars, escVars, extVars, filesVars>>

\* The stream yields None: the channel is empty and its sender dropped.
CallerSeesEnd ==
    /\ rxOpen
    /\ chan = <<>>
    /\ prodPc = "done"
    /\ callerSaw = "pending"
    /\ callerSaw' = "end"
    /\ UNCHANGED <<streamMode, wire, transport, prodPc, pending, chan, rxOpen,
                   received, bodyDoc, parseVars, escVars, extVars, filesVars>>

\* The caller drops the stream before its end.
CallerDrop ==
    /\ prodPc # "start"
    /\ rxOpen
    /\ callerSaw = "pending"
    /\ rxOpen' = FALSE
    /\ chan' = <<>>
    /\ UNCHANGED <<streamMode, wire, transport, prodPc, pending, received, callerSaw,
                   bodyDoc, parseVars, escVars, extVars, filesVars>>

SpecApiInit == ApiInit /\ ParseIdle /\ EscIdle /\ ExtIdle /\ FilesIdle
SpecApiNext ==
    \/ CallStreaming
    \/ CallNonStreaming
    \/ ProducerNext
    \/ ProducerSend
    \/ CallerRecv
    \/ CallerSeesEnd
    \/ CallerDrop
SpecApi == SpecApiInit /\ [][SpecApiNext]_vars

\* ================================================================== claims

\* ---- the decoder, line by line
KindOf(k) == LineCatalog[lineIds[k]].kind

\* What the lines of the input carry, in order: of every "valid" line the
\* content alone, or the content and then the markers.
ContentsInOrder ==
    Flatten([k \in 1..Len(lineIds) |->
        IF KindOf(k) = "valid" THEN LineCatalog[lineIds[k]].content ELSE <<>>])

ContentsAndMarkersInOrder ==
    Flatten([k \in 1..Len(lineIds) |->
        IF KindOf(k) = "valid"
        THEN LineCatalog[lineIds[k]].content \o LineCatalog[lineIds[k]].markers
        ELSE <<>>])

\* C10 as stated: the decoded text of a multi-line input is the in-order
\* concatenation of the lines' contributions, where blank lines, data: [DONE],
\* malformed lines and finish_reason "stop" lines contribute nothing and every
\* other valid data: line contributes its non-empty delta content.
C10_ContentOnly == parsePc = "ret" => result = ContentsInOrder

\* C10 as amended: the same, with every other valid data: line contributing
\* its non-empty delta content followed by its [refusal: ...] marker (a
\* refusal that is not null) and its [role: ...] marker (a string role).
C10_ContentAndMarkers == parsePc = "ret" => result = ContentsAndMarkersInOrder

\* A run of three lines, a skipped line between two contributing ones, the
\* last of them carrying a marker.
C10_Witness ==
    /\ parsePc = "ret"
    /\ Len(lineIds) = 3
    /\ KindOf(1) = "valid"
    /\ KindOf(2) \in {"blank", "done", "malformed", "stop"}
    /\ KindOf(3) = "valid"
    /\ LineCatalog[lineIds[1]].content # <<>>
    /\ LineCatalog[lineIds[3]].markers # <<>>
    /\ result # <<>>

\* ---- the raw fallback
\* No line of the text, trimmed, begins with "data: ".
NoDataLine(text) ==
    \A k \in 1..Len(Lines(text)) : ~StartsWith(Trim(Lines(text)[k]), DataPrefix)

\* C2: an input none of whose lines begins with "data: " is returned whole
\* and unchanged (stated here of the inputs that hold more than whitespace).
C2_RawFallback ==
    (parsePc = "ret" /\ NoDataLine(data) /\ Trim(data) # <<>>) => result = data

\* ---- the streamed response
WireOk == \A i \in 1..Len(wire) : wire[i].ok

\* The bytes of the response, unsplit.
WholeBytes == Flatten([i \in 1..Len(wire) |-> wire[i].bytes])

\* C1: however the event stream is cut into fragments, the texts the caller
\* gets, concatenated in order, are the text decoded from the unsplit stream.
C1_SplitInvariance ==
    (streamMode /\ WireOk /\ callerSaw = "end")
        => Flatten(received) = parse_google_api_response(Utf8Text(WholeBytes))

\* The task takes a chunk of the response from the transport.
ChunkRead ==
    /\ transport # <<>>
    /\ Head(transport).ok
    /\ transport' = Tail(transport)

\* C6: once the caller has dropped the stream, the task reads no further
\* chunk from the transport.
C6_NoReadAfterCancel == [][~rxOpen => ~ChunkRead]_vars

\* The texts decoded from the chunks received before the error, in order.
NotEmpty(s) == s # <<>>
DecodedBeforeError ==
    SelectSeq([i \in 1..Len(wire) |->
                  IF wire[i].ok /\ from_utf8(wire[i].bytes).ok
                  THEN parse_google_api_response(from_utf8(wire[i].bytes).s)
                  ELSE <<>>],
              NotEmpty)

\* C7: after a transport error in mid-stream the caller has got every text
\* decoded before the error, in order, and what it sees at the end of the
\* stream is not the None of a normal close.
C7_ErrorVisible ==
    (streamMode /\ ~WireOk /\ DecodedBeforeError # <<>> /\ callerSaw # "pending")
        => (received = DecodedBeforeError /\ callerSaw # "end")

\* ---- the single response
\* C3: of one complete JSON document the caller gets the string at
\* candidates[0].content.parts[0].text, and nothing when it is absent.
C3_CandidatesText ==
    (~streamMode /\ callerSaw = "end")
        => received = IF bodyDoc.present THEN <<bodyDoc.text>> ELSE <<>>

\* ---- get_files_content
IsSurvivor(f) == f.survives
Survivors(fs) == SelectSeq(fs, IsSurvivor)
RecordsOf(fs) == [k \in 1..Len(fs) |-> fs[k].path \o <<"\t">> \o fs[k].escaped]

\* C4: get_files_content fails with "No readable files found", and returns
\* no payload, exactly when no yielded file survives; when one does it
\* returns a payload that is not empty.
C4_NoReadableFiles ==
    filesPc = "done" =>
        /\ (Survivors(files) = <<>>) <=> ~filesRet.ok
        /\ ~filesRet.ok =>
              (filesRet.err = "No readable files found" /\ filesRet.payload = <<>>)
        /\ filesRet.ok => filesRet.payload # <<>>

\* Three files, none surviving, one of them not binary.
C4_Witness ==
    /\ filesPc = "done"
    /\ Len(files) = 3
    /\ Survivors(files) = <<>>
    /\ \E k \in 1..3 : ~is_binary_file(files[k])
    /\ ~filesRet.ok

\* C9: the records are those of the surviving files, one each, in traversal
\* order, whatever files are skipped between them, and the payload is the
\* records joined by newlines.
C9_RecordsOfSurvivors ==
    /\ filesPc \in {"loop", "done"} =>
          records = RecordsOf(Survivors(SubSeq(files, 1, fileIdx - 1)))
    /\ (filesPc = "done" /\ filesRet.ok) =>
          filesRet.payload = Join(RecordsOf(Survivors(files)), <<"\n">>)

\* A file whose read fails, between two surviving files.
C9_Witness ==
    /\ filesPc = "done"
    /\ Len(files) = 3
    /\ files[1].survives
    /\ ~files[2].survives /\ ~is_binary_file(files[2])
    /\ files[3].survives
    /\ filesRet.ok

\* ---- the escaping step
\* The reverse of the escaping: the JSON string in the record, read twice.
Unescape(e) ==
    LET once == FromStr(<<"\"">> \o e \o <<"\"">>) IN
    IF ~once.ok \/ once.v.t # "str" THEN [ok |-> FALSE, s |-> <<>>]
    ELSE LET twice == FromStr(once.v.s) IN
         IF twice.ok /\ twice.v.t = "str" THEN [ok |-> TRUE, s |-> twice.v.s]
         ELSE [ok |-> FALSE, s |-> <<>>]

\* C5: the escaped content holds no newline and no tab, and unescaping it
\* gives the content back.
C5_EscapeRoundTrip ==
    escPc = "ret" =>
        /\ ~Contains(escaped, "\n")
        /\ ~Contains(escaped, "\t")
        /\ Unescape(escaped).ok
        /\ Unescape(escaped).s = content

\* A content with a tab, a newline and a character outside ASCII.
C5_Witness ==
    /\ escPc = "ret"
    /\ Contains(content, "\t")
    /\ Contains(content, "\n")
    /\ Contains(content, "U+00E9")

\* ---- the extension signal
FileNameOf(path) == SplitLast(path, "/")

\* C8: the extension signal is true exactly when the file name has an
\* extension, the text after its last ".", that is on the denylist whatever
\* its case; a file name without "." is never binary by this signal.
C8_ExtensionSignal ==
    extPc = "ret" =>
        (extSignal <=>
            /\ Contains(FileNameOf(file), ".")
            /\ ToLowercase(SplitLast(FileNameOf(file), ".")) \in BinaryExtensions)

====
